---------------------------- MODULE Spec2Model ----------------------------
(***************************************************************************)
(* phantomasync: an HTTP capture-and-forward bridge.                       *)
(*                                                                         *)
(* Two programs share one handler shape:                                   *)
(*   - the list variant pushes every request onto the Redis list           *)
(*     "request_queue" with LPUSH;                                         *)
(*   - the topic variant (producer/producer.go) produces every request to  *)
(*     the Kafka topic "foo" with ProduceSync.                             *)
(* A third program, the console-print variant, binds the same route to a   *)
(* handler that prints the request; it has a specification of its own.     *)
(*                                                                         *)
(* Go strings are byte strings: they are modelled as sequences of byte     *)
(* values 0..255, and the JSON document handed to the backend is the       *)
(* sequence of bytes encoding/json writes for a RequestPayload.            *)
(***************************************************************************)
EXTENDS Integers, Sequences, FiniteSets, TLC

(***************************************************************************)
(* Bounds of the model.                                                    *)
(***************************************************************************)
\* number of requests the listener dispatches in one run
NumReq == 2
\* longest body (in bytes) the codec specification enumerates
MaxBody == 2
\* most header lines the codec specification enumerates per request
MaxHdrLines == 2

(***************************************************************************)
(* Byte-string helpers.                                                    *)
(***************************************************************************)
\* strings.Compare order on byte strings: the order encoding/json sorts
\* map keys in.
BytesLess(a, b) ==
    \E i \in 1..Len(b) :
        /\ \A j \in 1..(i - 1) : j <= Len(a) /\ a[j] = b[j]
        /\ i > Len(a) \/ a[i] < b[i]

\* the keys of a map, sorted: each key at the place its rank gives it
SortedKeys(S) ==
    LET rank(k) == 1 + Cardinality({y \in S : BytesLess(y, k)})
    IN  [i \in 1..Cardinality(S) |-> CHOOSE k \in S : rank(k) = i]

\* utf8.DecodeRuneInString at position i: the rune (-1 stands for
\* RuneError on an invalid byte) and the bytes it spans.
DecodeRune(s, i) ==
    LET n == Len(s)
        b0 == s[i]
        cont(k, lo, hi) == i + k <= n /\ s[i + k] >= lo /\ s[i + k] <= hi
        bad == [rune |-> -1, size |-> 1]
    IN  IF b0 < 128 THEN [rune |-> b0, size |-> 1]
        ELSE IF b0 >= 194 /\ b0 <= 223 THEN
            IF cont(1, 128, 191)
            THEN [rune |-> (b0 - 192) * 64 + (s[i + 1] - 128), size |-> 2]
            ELSE bad
        ELSE IF b0 >= 224 /\ b0 <= 239 THEN
            LET lo == IF b0 = 224 THEN 160 ELSE 128
                hi == IF b0 = 237 THEN 159 ELSE 191
            IN  IF cont(1, lo, hi) /\ cont(2, 128, 191)
                THEN [rune |-> (b0 - 224) * 4096 + (s[i + 1] - 128) * 64
                                + (s[i + 2] - 128),
                      size |-> 3]
                ELSE bad
        ELSE IF b0 >= 240 /\ b0 <= 244 THEN
            LET lo == IF b0 = 240 THEN 144 ELSE 128
                hi == IF b0 = 244 THEN 143 ELSE 191
            IN  IF cont(1, lo, hi) /\ cont(2, 128, 191) /\ cont(3, 128, 191)
                THEN [rune |-> (b0 - 240) * 262144 + (s[i + 1] - 128) * 4096
                                + (s[i + 2] - 128) * 64 + (s[i + 3] - 128),
                      size |-> 4]
                ELSE bad
        ELSE bad

\* utf8.EncodeRune
EncodeRune(r) ==
    IF r < 128 THEN <<r>>
    ELSE IF r < 2048 THEN <<192 + (r \div 64), 128 + (r % 64)>>
    ELSE IF r < 65536 THEN
        <<224 + (r \div 4096), 128 + ((r \div 64) % 64), 128 + (r % 64)>>
    ELSE <<240 + (r \div 262144), 128 + ((r \div 4096) % 64),
           128 + ((r \div 64) % 64), 128 + (r % 64)>>

\* one digit of "0123456789abcdef"
HexDigit(n) == IF n < 10 THEN 48 + n ELSE 87 + n

\* the value of a hex digit byte, -1 when it is none
HexValue(b) ==
    IF b >= 48 /\ b <= 57 THEN b - 48
    ELSE IF b >= 97 /\ b <= 102 THEN b - 87
    ELSE IF b >= 65 /\ b <= 70 THEN b - 55
    ELSE -1

(***************************************************************************)
(* json.Marshal of a RequestPayload (pushToRedis / produce, first line).    *)
(***************************************************************************)
\* The bytes encoding/json writes for the rune at s[i] inside a string
\* (HTML escaping is on for json.Marshal): safe ASCII is copied, the quote,
\* the backslash and the control characters are escaped, <, > and & become
\* \u00XX, U+2028 and U+2029 become \u202X, and an invalid byte is replaced
\* by the six bytes of the escape for U+FFFD.
EncodeRuneJSON(s, i) ==
    LET d == DecodeRune(s, i)
        b == s[i]
    IN  IF d.rune = -1 THEN <<92, 117, 102, 102, 102, 100>>
        ELSE IF d.size > 1 THEN
            IF d.rune = 8232 THEN <<92, 117, 50, 48, 50, 56>>
            ELSE IF d.rune = 8233 THEN <<92, 117, 50, 48, 50, 57>>
            ELSE SubSeq(s, i, i + d.size - 1)
        ELSE IF b = 34 \/ b = 92 THEN <<92, b>>
        ELSE IF b = 10 THEN <<92, 110>>
        ELSE IF b = 13 THEN <<92, 114>>
        ELSE IF b = 9 THEN <<92, 116>>
        ELSE IF b < 32 \/ b = 60 \/ b = 62 \/ b = 38 THEN
            <<92, 117, 48, 48, HexDigit(b \div 16), HexDigit(b % 16)>>
        ELSE <<b>>

\* a Go string as a JSON string: the runes of s from its first byte on,
\* each as EncodeRuneJSON writes it, between quotes
EncodeString(s) ==
    LET from[i \in 1..(Len(s) + 1)] ==
            IF i > Len(s) THEN <<>>
            ELSE EncodeRuneJSON(s, i) \o from[i + DecodeRune(s, i).size]
    IN  <<34>> \o from[1] \o <<34>>

\* a []string as a JSON array: a comma before every element but the first
EncodeSlice(vs) ==
    LET from[k \in 1..(Len(vs) + 1)] ==
            IF k > Len(vs) THEN <<>>
            ELSE (IF k > 1 THEN <<44>> ELSE <<>>)
                 \o EncodeString(vs[k]) \o from[k + 1]
    IN  <<91>> \o from[1] \o <<93>>

\* a map[string][]string as a JSON object: the keys sorted, a comma before
\* every member but the first
EncodeHeaders(h) ==
    LET n == Cardinality(DOMAIN h)
        member == [key \in DOMAIN h |->
                      EncodeString(key) \o <<58>> \o EncodeSlice(h[key])]
        from[k \in 1..(n + 1)] ==
            IF k > n THEN <<>>
            ELSE (IF k > 1 THEN <<44>> ELSE <<>>)
                 \o member[SortedKeys(DOMAIN h)[k]] \o from[k + 1]
    IN  <<123>> \o from[1] \o <<125>>

\* the field tags of RequestPayload: "method", "uri", "headers", "body"
TagMethod == <<109, 101, 116, 104, 111, 100>>
TagURI == <<117, 114, 105>>
TagHeaders == <<104, 101, 97, 100, 101, 114, 115>>
TagBody == <<98, 111, 100, 121>>

\* json.Marshal(data): the struct's fields in declaration order
jsonMarshal(data) ==
    <<123>>
    \o EncodeString(TagMethod) \o <<58>> \o EncodeString(data.Method) \o <<44>>
    \o EncodeString(TagURI) \o <<58>> \o EncodeString(data.URI) \o <<44>>
    \o EncodeString(TagHeaders) \o <<58>> \o EncodeHeaders(data.Headers) \o <<44>>
    \o EncodeString(TagBody) \o <<58>> \o EncodeString(data.Body)
    \o <<125>>

(***************************************************************************)
(* The consumer's inverse: json.Unmarshal into a RequestPayload.  Every    *)
(* parser is three functions of the position it starts at: whether it      *)
(* succeeds, its value, and the position after it.                         *)
(***************************************************************************)
\* the value of the four hex digits at b[i..i+3], -1 when they are not hex
Hex4(b, i) ==
    IF i + 3 > Len(b) THEN -1
    ELSE IF \E k \in 0..3 : HexValue(b[i + k]) = -1 THEN -1
    ELSE HexValue(b[i]) * 4096 + HexValue(b[i + 1]) * 256
         + HexValue(b[i + 2]) * 16 + HexValue(b[i + 3])

\* one step inside a JSON string, at a byte that is not the closing quote:
\* whether it is well formed, the bytes it stands for and the bytes it
\* spans.  An escape is unescaped, a \u escape becomes the UTF-8 of its
\* rune (of its surrogate pair), invalid UTF-8 becomes U+FFFD.
StrStep(b, j) ==
    LET bad == [ok |-> FALSE, out |-> <<>>, w |-> 1]
    IN  IF b[j] = 92 THEN
            IF j + 1 > Len(b) THEN bad
            ELSE IF b[j + 1] = 117 THEN
                LET r == Hex4(b, j + 2)
                    r2 == IF j + 7 <= Len(b) /\ b[j + 6] = 92 /\ b[j + 7] = 117
                          THEN Hex4(b, j + 8) ELSE -1
                IN  IF r = -1 THEN bad
                    ELSE IF r >= 55296 /\ r <= 56319
                            /\ r2 >= 56320 /\ r2 <= 57343
                    THEN [ok |-> TRUE,
                          out |-> EncodeRune(65536 + (r - 55296) * 1024
                                             + (r2 - 56320)),
                          w |-> 12]
                    ELSE IF r >= 55296 /\ r <= 57343
                    THEN [ok |-> TRUE, out |-> EncodeRune(65533), w |-> 6]
                    ELSE [ok |-> TRUE, out |-> EncodeRune(r), w |-> 6]
            ELSE LET c == b[j + 1]
                     u == IF c = 34 \/ c = 92 \/ c = 47 THEN c
                          ELSE IF c = 98 THEN 8
                          ELSE IF c = 102 THEN 12
                          ELSE IF c = 110 THEN 10
                          ELSE IF c = 114 THEN 13
                          ELSE IF c = 116 THEN 9
                          ELSE -1
                 IN  IF u = -1 THEN bad
                     ELSE [ok |-> TRUE, out |-> <<u>>, w |-> 2]
        ELSE IF b[j] < 32 THEN bad
        ELSE LET d == DecodeRune(b, j)
             IN  IF d.rune = -1
                 THEN [ok |-> TRUE, out |-> EncodeRune(65533), w |-> 1]
                 ELSE [ok |-> TRUE, out |-> SubSeq(b, j, j + d.size - 1),
                       w |-> d.size]

\* a JSON string at b[i]
StrOk(b, i) ==
    LET ok[j \in 1..(Len(b) + 1)] ==
            IF j > Len(b) THEN FALSE
            ELSE IF b[j] = 34 THEN TRUE
            ELSE StrStep(b, j).ok /\ ok[j + StrStep(b, j).w]
    IN  i <= Len(b) /\ b[i] = 34 /\ ok[i + 1]

StrVal(b, i) ==
    LET val[j \in 1..(Len(b) + 1)] ==
            IF b[j] = 34 THEN <<>>
            ELSE StrStep(b, j).out \o val[j + StrStep(b, j).w]
    IN  val[i + 1]

StrNext(b, i) ==
    LET nxt[j \in 1..(Len(b) + 1)] ==
            IF b[j] = 34 THEN j + 1 ELSE nxt[j + StrStep(b, j).w]
    IN  nxt[i + 1]

\* the tokens of a document: a string with the bytes it stands for, a
\* punctuation byte, or a single malformed token where scanning stops
Tokens(b) ==
    LET from[j \in 1..(Len(b) + 1)] ==
            IF j > Len(b) THEN <<>>
            ELSE IF b[j] = 34 THEN
                IF StrOk(b, j)
                THEN <<[kind |-> "string", val |-> StrVal(b, j)]>>
                     \o from[StrNext(b, j)]
                ELSE <<[kind |-> "malformed", val |-> <<>>]>>
            ELSE <<[kind |-> "punct", val |-> <<b[j]>>]>> \o from[j + 1]
    IN  from[1]

\* token j is the punctuation byte c
IsPunct(t, j, c) ==
    j \in 1..Len(t) /\ t[j].kind = "punct" /\ t[j].val = <<c>>

\* token j is a string
IsString(t, j) == j \in 1..Len(t) /\ t[j].kind = "string"

\* the members of the headers object lie between tokens 13 and Len(t) - 6:
\* the positions where a member starts, with its key
KeyPos(t) ==
    {k \in 13..(Len(t) - 6) : IsString(t, k) /\ IsPunct(t, k + 1, 58)}

\* the closing bracket of the member whose key is token k, 0 when missing
CloseOf(t, k) ==
    LET closes == {e \in (k + 3)..(Len(t) - 6) : IsPunct(t, e, 93)}
    IN  IF closes = {} THEN 0
        ELSE CHOOSE e \in closes : \A e2 \in closes : e <= e2

\* the member at key k is a key, a colon and an array of strings, followed
\* by the end of the object or by a comma and the next member
MemberOk(t, k) ==
    /\ IsPunct(t, k + 2, 91)
    /\ \E e \in {CloseOf(t, k)} :
        /\ e # 0
        /\ e = k + 3 \/ (e - k) % 2 = 0
        /\ \A j \in (k + 3)..(e - 1) :
              IF (j - k) % 2 = 1 THEN IsString(t, j) ELSE IsPunct(t, j, 44)
        /\ \/ e = Len(t) - 6
           \/ IsPunct(t, e + 1, 44) /\ e + 2 \in KeyPos(t)

\* the []string of the member at key k
MemberVal(t, k) ==
    LET cnt == (CloseOf(t, k) - k - 2) \div 2
    IN  [i \in 1..cnt |-> t[k + 1 + 2 * i].val]

\* the map the members build: a later member of the same key replaces an
\* earlier one
MembersToMap(t) ==
    [key \in {t[k].val : k \in KeyPos(t)} |->
        MemberVal(t, CHOOSE k \in KeyPos(t) :
                        /\ t[k].val = key
                        /\ \A k2 \in KeyPos(t) : t[k2].val = key => k2 <= k)]

\* token j is the tag of a field, followed by a colon
IsTag(t, j, tag) ==
    IsString(t, j) /\ t[j].val = tag /\ IsPunct(t, j + 1, 58)

\* the tokens are a document as jsonMarshal writes it: the four fields in
\* their order, method, uri and body strings, headers an object of arrays
DocumentOk(t) ==
    /\ Len(t) >= 18
    /\ IsPunct(t, 1, 123)
    /\ IsTag(t, 2, TagMethod) /\ IsString(t, 4) /\ IsPunct(t, 5, 44)
    /\ IsTag(t, 6, TagURI) /\ IsString(t, 8) /\ IsPunct(t, 9, 44)
    /\ IsTag(t, 10, TagHeaders) /\ IsPunct(t, 12, 123)
    /\ Len(t) = 18 \/ 13 \in KeyPos(t)
    /\ \A k \in KeyPos(t) : MemberOk(t, k)
    /\ IsPunct(t, Len(t) - 5, 125) /\ IsPunct(t, Len(t) - 4, 44)
    /\ IsTag(t, Len(t) - 3, TagBody) /\ IsString(t, Len(t) - 1)
    /\ IsPunct(t, Len(t), 125)

\* the payload a tokenised document decodes to: [ok, val]
ParseTokens(t) ==
    IF DocumentOk(t)
    THEN [ok |-> TRUE,
          val |-> [Method |-> t[4].val, URI |-> t[8].val,
                   Headers |-> MembersToMap(t), Body |-> t[Len(t) - 1].val]]
    ELSE [ok |-> FALSE, val |-> <<>>]

\* json.Unmarshal(bytes, &RequestPayload{}): the parse of the tokens of b
jsonUnmarshal(b) ==
    CHOOSE out \in {ParseTokens(t) : t \in {Tokens(b)}} : TRUE

(***************************************************************************)
(* The requests the listener hands to the handler.  A request is what      *)
(* net/http gives gin: Method, RequestURI, the header lines in the order   *)
(* they were received (names already in canonical form), and the body.     *)
(***************************************************************************)
\* "GET", "POST", "PUT"
GET == <<71, 69, 84>>
POST == <<80, 79, 83, 84>>
PUT == <<80, 85, 84>>
\* "/foo/bar?x=1", "/q?a=<b>"
UriFooBar == <<47, 102, 111, 111, 47, 98, 97, 114, 63, 120, 61, 49>>
UriQuery == <<47, 113, 63, 97, 61, 60, 98, 62>>
\* "Accept", "X-Tag", "text/plain", "a", "b"
HdrAccept == <<65, 99, 99, 101, 112, 116>>
HdrXTag == <<88, 45, 84, 97, 103>>
TextPlain == <<116, 101, 120, 116, 47, 112, 108, 97, 105, 110>>
ValA == <<97>>
ValB == <<98>>

\* GET /foo/bar?x=1 with Accept: text/plain and no body
ReqGet ==
    [Method |-> GET, RequestURI |-> UriFooBar,
     Lines |-> << <<HdrAccept, TextPlain>> >>, Body |-> <<>>]
\* POST /q?a=<b> with X-Tag: a, X-Tag: b and the body "hi"
ReqPost ==
    [Method |-> POST, RequestURI |-> UriQuery,
     Lines |-> << <<HdrXTag, ValA>>, <<HdrXTag, ValB>> >>,
     Body |-> <<104, 105>>]
\* PUT /q?a=<b> with X-Tag: b, Accept: text/plain, X-Tag: a and a binary
\* body (0xFF is no valid UTF-8)
ReqPut ==
    [Method |-> PUT, RequestURI |-> UriQuery,
     Lines |-> << <<HdrXTag, ValB>>, <<HdrAccept, TextPlain>>,
                  <<HdrXTag, ValA>> >>,
     Body |-> <<255, 97>>]

Requests == {ReqGet, ReqPost, ReqPut}

\* the requests of one run
Req == 1..NumReq

\* no request, no payload
None == [none |-> TRUE]

\* values of the backend-address flag: the list variant's default
\* "localhost:6379" and "redis:6380"; the topic variant's default
\* "localhost:9092" and the two seeds "k1:9092,k2:9092"
RedisDefaultAddr == <<108, 111, 99, 97, 108, 104, 111, 115, 116, 58, 54, 51, 55, 57>>
RedisOtherAddr == <<114, 101, 100, 105, 115, 58, 54, 51, 56, 48>>
KafkaDefaultAddr == <<108, 111, 99, 97, 108, 104, 111, 115, 116, 58, 57, 48, 57, 50>>
KafkaTwoSeeds == <<107, 49, 58, 57, 48, 57, 50, 44, 107, 50, 58, 57, 48, 57, 50>>
\* the seed kgo.NewClient uses when no SeedBrokers option is given:
\* "127.0.0.1"
KgoDefaultSeeds == << <<49, 50, 55, 46, 48, 46, 48, 46, 49>> >>

\* err.Error() of a failed body read, and of a failed backend call
ReadErrors == {"unexpected EOF"}
BackendErrors == {"connection refused", "i/o timeout"}
\* err.Error() of a failed json.Marshal
MarshalErrors == {"json: unsupported value"}

(***************************************************************************)
(* State.                                                                  *)
(***************************************************************************)
VARIABLES
    variant,    \* which program runs: "list" (Redis) or "topic" (Kafka)
    mainPc,     \* main: "start", "created", "serving", "exited"
    verified,   \* NewServer's Ping of the backend has succeeded
    backendUp,  \* the backend is reachable and accepts writes
    store,      \* the list "request_queue" / the topic "foo": its blobs
    req,        \* per request: c.Request, None before it arrives
    st,         \* per request: where its handler is
    payload,    \* per request: requestData, None before capture
    blob,       \* per request: jsonData, <<>> before json.Marshal
    reply,      \* per request: the backend's answer in flight, "none",
                \* "ack" or the error text
    calls,      \* per request: how often LPush / ProduceSync was invoked
    responses,  \* per request: the HTTP responses written with c.JSON
    log,        \* the slog events, oldest first
    flagAddr,   \* the value of the backend-address flag, as bytes
    clientAddr, \* the addresses the backend client was built with,
                \* <<>> before NewServer
    stdout,     \* console variant: what the handlers printed
    reads,      \* per request: the calls of io.ReadAll on its body
    cPc,        \* codec run: "input", "captured", "serialized", "decoded"
    cIn,        \* codec run: the request
    cEnv,       \* codec run: the RequestPayload
    cBlob,      \* codec run: its JSON document
    cOut        \* codec run: what the consumer decodes

srvVars == <<variant, flagAddr, clientAddr, mainPc, verified, backendUp,
             store, req, st, payload, blob, reply, calls, responses, log>>
codecVars == <<cPc, cIn, cEnv, cBlob, cOut>>
conVars == <<stdout, reads>>
vars == <<srvVars, codecVars, conVars>>

Terminal == {"enqueued", "capture_failed", "serialize_failed", "enqueue_failed"}
Failed == Terminal \ {"enqueued"}

(***************************************************************************)
(* The handler's pure parts.                                               *)
(***************************************************************************)
\* c.Request.Header: http.Header.Add appends each received value to the
\* entry of its name.
RequestHeader(lines) ==
    LET after[n \in 0..Len(lines)] ==
            IF n = 0 THEN [k \in {} |-> <<>>]
            ELSE LET h == after[n - 1]
                     k == lines[n][1]
                 IN  [x \in DOMAIN h \cup {k} |->
                         IF x = k
                         THEN (IF k \in DOMAIN h THEN h[k] ELSE <<>>)
                              \o <<lines[n][2]>>
                         ELSE h[x]]
    IN  after[Len(lines)]

\* parseRequest as it would be with each header collapsed to its first
\* value (c.GetHeader instead of the whole c.Request.Header)
parseRequestFirstValue(c) ==
    [Method |-> c.Method, URI |-> c.RequestURI,
     Headers |-> [k \in DOMAIN RequestHeader(c.Lines) |->
                     <<RequestHeader(c.Lines)[k][1]>>],
     Body |-> c.Body]

\* parseRequest, on a body io.ReadAll has read in full
parseRequest(c) ==
    [Method |-> c.Method, URI |-> c.RequestURI,
     Headers |-> RequestHeader(c.Lines), Body |-> c.Body]

\* the failure texts and the confirmation text of the handler
MsgReadFailed == "Failed to read request body"
MsgPushFailed == "Failed to push to Redis queue"
MsgAdded == "Request added to Redis queue"

\* c.JSON(status, gin.H{key: text})
JSONResponse(status, key, text) ==
    [status |-> status, body |-> [key |-> key, text |-> text]]

\* the push failure answered with another status
RespPushFailedBadGateway == JSONResponse(502, "error", MsgPushFailed)

\* the three responses of handleRequest
RespReadFailed == JSONResponse(500, "error", MsgReadFailed)
RespPushFailed == JSONResponse(500, "error", MsgPushFailed)
RespAdded == JSONResponse(200, "message", MsgAdded)

\* slog.Error(msg, "error", detail) and slog.Info(msg, "method", m, "uri", u);
\* by is the handler that logged (0: main), kept for the properties only
LogError(by, msg, detail) ==
    [by |-> by, level |-> "ERROR", msg |-> msg, attrs |-> <<"error", detail>>]
LogInfo(by, msg, attrs) ==
    [by |-> by, level |-> "INFO", msg |-> msg, attrs |-> attrs]

\* a write that replaces the list (SET) instead of pushing onto it
LPushOverwrite(list, b) == <<b>>

\* RPUSH instead of LPUSH: the blob becomes the tail of the list
RPush(list, b) == Append(list, b)

\* LPUSH request_queue blob: the blob becomes the head of the list
LPush(list, b) == <<b>> \o list
\* a produce whose internal retry writes the record a second time
ProduceDuplicate(topic, b) == topic \o <<b, b>>

\* ProduceSync of one record to topic foo: the record is appended
Produce(topic, b) == Append(topic, b)

\* the enqueue primitive of the running variant
Enqueue(s, b) == IF variant = "list" THEN LPush(s, b) ELSE Produce(s, b)

(***************************************************************************)
(* main and NewServer.                                                     *)
(***************************************************************************)
\* strings.Split(s, sep) for a one-byte separator: the pieces between the
\* separators, empty pieces included
Split(s, sep) ==
    LET at == {i \in 1..Len(s) : s[i] = sep}
        n == Cardinality(at) + 1
        cut == [k \in 0..n |->
                   IF k = 0 THEN 0
                   ELSE IF k = n THEN Len(s) + 1
                   ELSE CHOOSE i \in at :
                            Cardinality({j \in at : j < i}) = k - 1]
    IN  [k \in 1..n |-> SubSeq(s, cut[k - 1] + 1, cut[k] - 1)]

\* main of the topic variant: the seeds it passes to NewServer
kafkaAddr == Split(flagAddr, 44)

Init ==
    /\ variant \in {"list", "topic"}
    /\ flagAddr \in (IF variant = "list"
                     THEN {RedisDefaultAddr, RedisOtherAddr}
                     ELSE {KafkaDefaultAddr, KafkaTwoSeeds})
    /\ clientAddr = <<>>
    /\ stdout = <<>>
    /\ reads = [r \in Req |-> 0]
    /\ mainPc = "start"
    /\ verified = FALSE
    /\ backendUp \in BOOLEAN
    /\ store = <<>>
    /\ req = [r \in Req |-> None]
    /\ st = [r \in Req |-> "idle"]
    /\ payload = [r \in Req |-> None]
    /\ blob = [r \in Req |-> <<>>]
    /\ reply = [r \in Req |-> "none"]
    /\ calls = [r \in Req |-> 0]
    /\ responses = [r \in Req |-> <<>>]
    /\ log = <<>>
    /\ cPc = "off"
    /\ cIn = None
    /\ cEnv = None
    /\ cBlob = <<>>
    /\ cOut = None

\* the list variant's NewServer and main's check of it: the client is
\* created and the backend pinged; an unreachable backend ends the process
NewServerRedis ==
    /\ variant = "list"
    /\ mainPc = "start"
    /\ \/ /\ backendUp
          /\ verified' = TRUE
          /\ clientAddr' = <<flagAddr>>
          /\ mainPc' = "created"
          /\ log' = Append(log, LogInfo(0, "Connected to Redis",
                                        <<"address", flagAddr>>))
       \/ /\ ~backendUp
          /\ mainPc' = "exited"
          /\ log' = Append(log, LogError(0, "Failed to initialize server",
                                         "failed to connect to Redis"))
          /\ UNCHANGED <<verified, clientAddr>>
    /\ UNCHANGED <<variant, flagAddr, backendUp, store, req, st, payload,
                   blob, reply, calls, responses, codecVars, conVars>>

\* the topic variant's NewServer and main's check of it: kgo.NewClient
\* builds the client and contacts no broker; only its own error ends the
\* process
NewServerKafka ==
    /\ variant = "topic"
    /\ mainPc = "start"
    /\ \/ /\ mainPc' = "created"
          /\ clientAddr' = KgoDefaultSeeds
          /\ log' = Append(log, LogInfo(0, "Connected to kafka",
                                        <<"address", flagAddr>>))
       \/ /\ mainPc' = "exited"
          /\ log' = Append(log, LogError(0, "Failed to initialize server",
                                         "invalid client option"))
          /\ UNCHANGED clientAddr
    /\ UNCHANGED <<variant, flagAddr, verified, backendUp, store, req, st,
                   payload, blob, reply, calls, responses, codecVars,
                   conVars>>

\* r.Run(":8080"): the listener starts, or fails and main returns
Run ==
    /\ mainPc = "created"
    /\ \/ /\ mainPc' = "serving"
          /\ UNCHANGED log
       \/ /\ mainPc' = "exited"
          /\ log' = Append(log, LogError(0, "Failed to start server",
                                         "listen failed"))
    /\ UNCHANGED <<variant, flagAddr, clientAddr, verified, backendUp, store,
                   req, st, payload, blob, reply, calls, responses, codecVars,
                   conVars>>

\* the backend becomes unreachable, or reachable again
BackendFlip ==
    /\ mainPc \in {"start", "serving"}
    /\ backendUp' = ~backendUp
    /\ UNCHANGED <<variant, flagAddr, clientAddr, mainPc, verified, store,
                   req, st, payload, blob, reply, calls, responses, log,
                   codecVars, conVars>>

(***************************************************************************)
(* handleRequest, one goroutine per request.                               *)
(***************************************************************************)
\* r.Any("/*proxyPath", handleRequest): the listener dispatches the next
\* request, whatever its method and path, to a handler of its own
Accept(r) ==
    /\ mainPc = "serving"
    /\ st[r] = "idle"
    /\ \A q \in Req : q < r => st[q] # "idle"
    /\ \E c \in Requests : req' = [req EXCEPT ![r] = c]
    /\ st' = [st EXCEPT ![r] = "received"]
    /\ UNCHANGED <<variant, flagAddr, clientAddr, mainPc, verified, backendUp,
                   store, payload, blob, reply, calls, responses, log,
                   codecVars, conVars>>

\* the read-failure branch without its return: the handler answers 500 and
\* goes on with the empty payload parseRequest returned
ParseRequestNoReturn(r) ==
    /\ st[r] = "received"
    /\ reads' = [reads EXCEPT ![r] = @ + 1]
    /\ \/ /\ payload' = [payload EXCEPT ![r] = parseRequest(req[r])]
          /\ UNCHANGED <<responses, log>>
       \/ \E e \in ReadErrors :
          /\ responses' = [responses EXCEPT ![r] = Append(@, RespReadFailed)]
          /\ log' = Append(log, LogError(r, MsgReadFailed, e))
          /\ payload' = [payload EXCEPT ![r] =
                            [Method |-> <<>>, URI |-> <<>>,
                             Headers |-> [k \in {} |-> <<>>], Body |-> <<>>]]
    /\ st' = [st EXCEPT ![r] = "captured"]
    /\ UNCHANGED <<variant, flagAddr, clientAddr, mainPc, verified, backendUp,
                   store, req, blob, reply, calls, codecVars, stdout>>

\* parseRequest returns: io.ReadAll has drained the body and the payload is
\* built, or the read failed and the handler answers 500 and returns
ParseRequest(r) ==
    /\ st[r] = "received"
    /\ reads' = [reads EXCEPT ![r] = @ + 1]
    /\ \/ /\ payload' = [payload EXCEPT ![r] = parseRequest(req[r])]
          /\ st' = [st EXCEPT ![r] = "captured"]
          /\ UNCHANGED <<responses, log>>
       \/ \E e \in ReadErrors :
          /\ responses' = [responses EXCEPT ![r] = Append(@, RespReadFailed)]
          /\ log' = Append(log, LogError(r, MsgReadFailed, e))
          /\ st' = [st EXCEPT ![r] = "capture_failed"]
          /\ UNCHANGED payload
    /\ UNCHANGED <<variant, flagAddr, clientAddr, mainPc, verified, backendUp,
                   store, req, blob, reply, calls, codecVars, stdout>>

\* the push started in the background and the request answered 200 at once
MarshalAsync(r) ==
    /\ st[r] = "captured"
    /\ st' = [st EXCEPT ![r] = "serialized"]
    /\ calls' = [calls EXCEPT ![r] = @ + 1]
    /\ blob' = [blob EXCEPT ![r] = jsonMarshal(payload[r])]
    /\ responses' = [responses EXCEPT ![r] = Append(@, RespAdded)]
    /\ UNCHANGED <<variant, flagAddr, clientAddr, mainPc, verified, backendUp,
                   store, req, payload, reply, log, codecVars, conVars>>

\* the push guarded by a lock held until the backend call returns: no
\* handler enters while another handler's call is outstanding
MarshalLocked(r) ==
    /\ st[r] = "captured"
    /\ \A q \in Req \ {r} : ~(st[q] = "serialized" /\ reply[q] = "none")
    /\ st' = [st EXCEPT ![r] = "serialized"]
    /\ calls' = [calls EXCEPT ![r] = @ + 1]
    /\ blob' = [blob EXCEPT ![r] = jsonMarshal(payload[r])]
    /\ UNCHANGED <<variant, flagAddr, clientAddr, mainPc, verified, backendUp,
                   store, req, payload, reply, responses, log, codecVars,
                   conVars>>

\* the marshal-failure branch answering with the read-failure message
MarshalReadMessage(r) ==
    /\ st[r] = "captured"
    /\ \/ /\ st' = [st EXCEPT ![r] = "serialized"]
          /\ calls' = [calls EXCEPT ![r] = @ + 1]
          /\ blob' = [blob EXCEPT ![r] = jsonMarshal(payload[r])]
          /\ UNCHANGED <<responses, log>>
       \/ \E e \in MarshalErrors :
          /\ responses' = [responses EXCEPT ![r] = Append(@, RespReadFailed)]
          /\ log' = Append(log, LogError(r, MsgReadFailed, e))
          /\ st' = [st EXCEPT ![r] = "serialize_failed"]
          /\ UNCHANGED <<blob, calls>>
    /\ UNCHANGED <<variant, flagAddr, clientAddr, mainPc, verified, backendUp,
                   store, req, payload, reply, codecVars, conVars>>

\* pushToRedis / produce up to the backend call: json.Marshal builds the
\* document and LPush / ProduceSync is invoked with it; when json.Marshal
\* returns an error the backend is not called and the handler, which sees
\* only pushToRedis's error, answers 500 and returns
Marshal(r) ==
    /\ st[r] = "captured"
    /\ \/ /\ st' = [st EXCEPT ![r] = "serialized"]
          /\ calls' = [calls EXCEPT ![r] = @ + 1]
          /\ blob' = [blob EXCEPT ![r] = jsonMarshal(payload[r])]
          /\ UNCHANGED <<responses, log>>
       \/ \E e \in MarshalErrors :
          /\ responses' = [responses EXCEPT ![r] = Append(@, RespPushFailed)]
          /\ log' = Append(log, LogError(r, MsgPushFailed, e))
          /\ st' = [st EXCEPT ![r] = "serialize_failed"]
          /\ UNCHANGED <<blob, calls>>
    /\ UNCHANGED <<variant, flagAddr, clientAddr, mainPc, verified, backendUp,
                   store, req, payload, reply, codecVars, conVars>>

\* the backend calls taken from a queue in arrival order: the call of a
\* request is executed only when every earlier request has had its answer
\* or has ended
BackendExecInOrder(r) ==
    /\ st[r] = "serialized"
    /\ reply[r] = "none"
    /\ \A q \in Req : q < r => (st[q] \in Terminal \/ reply[q] # "none")
    /\ \/ /\ backendUp
          /\ store' = Enqueue(store, blob[r])
          /\ reply' = [reply EXCEPT ![r] = "ack"]
       \/ /\ ~backendUp
          /\ \E e \in BackendErrors : reply' = [reply EXCEPT ![r] = e]
          /\ UNCHANGED store
    /\ UNCHANGED <<variant, flagAddr, clientAddr, mainPc, verified, backendUp,
                   req, st, payload, blob, calls, responses, log, codecVars,
                   conVars>>

\* the backend executes the call: a reachable backend stores the blob and
\* acknowledges, an unreachable one makes the client return an error
BackendExec(r) ==
    /\ st[r] = "serialized"
    /\ reply[r] = "none"
    /\ \/ /\ backendUp
          /\ store' = Enqueue(store, blob[r])
          /\ reply' = [reply EXCEPT ![r] = "ack"]
       \/ /\ ~backendUp
          /\ \E e \in BackendErrors : reply' = [reply EXCEPT ![r] = e]
          /\ UNCHANGED store
    /\ UNCHANGED <<variant, flagAddr, clientAddr, mainPc, verified, backendUp,
                   req, st, payload, blob, calls, responses, log, codecVars,
                   conVars>>

\* the handler retrying a failed backend call once
ReturnRetry(r) ==
    /\ st[r] = "serialized"
    /\ reply[r] # "none"
    /\ \/ /\ reply[r] = "ack"
          /\ log' = Append(log, LogInfo(r, MsgAdded,
                                <<"method", payload[r].Method,
                                  "uri", payload[r].URI>>))
          /\ responses' = [responses EXCEPT ![r] = Append(@, RespAdded)]
          /\ st' = [st EXCEPT ![r] = "enqueued"]
          /\ UNCHANGED <<reply, calls>>
       \/ /\ reply[r] # "ack"
          /\ calls[r] < 2
          /\ calls' = [calls EXCEPT ![r] = @ + 1]
          /\ reply' = [reply EXCEPT ![r] = "none"]
          /\ UNCHANGED <<responses, log, st>>
       \/ /\ reply[r] # "ack"
          /\ calls[r] >= 2
          /\ responses' = [responses EXCEPT ![r] = Append(@, RespPushFailed)]
          /\ log' = Append(log, LogError(r, MsgPushFailed, reply[r]))
          /\ st' = [st EXCEPT ![r] = "enqueue_failed"]
          /\ UNCHANGED <<reply, calls>>
    /\ UNCHANGED <<variant, flagAddr, clientAddr, mainPc, verified, backendUp,
                   store, req, payload, blob, codecVars, conVars>>

\* the handler ending the process on a backend error (a fatal log)
ReturnFatal(r) ==
    /\ st[r] = "serialized"
    /\ reply[r] # "none"
    /\ \/ /\ reply[r] = "ack"
          /\ log' = Append(log, LogInfo(r, MsgAdded,
                                <<"method", payload[r].Method,
                                  "uri", payload[r].URI>>))
          /\ responses' = [responses EXCEPT ![r] = Append(@, RespAdded)]
          /\ st' = [st EXCEPT ![r] = "enqueued"]
          /\ UNCHANGED mainPc
       \/ /\ reply[r] # "ack"
          /\ responses' = [responses EXCEPT ![r] = Append(@, RespPushFailed)]
          /\ log' = Append(log, LogError(r, MsgPushFailed, reply[r]))
          /\ st' = [st EXCEPT ![r] = "enqueue_failed"]
          /\ mainPc' = "exited"
    /\ UNCHANGED <<variant, flagAddr, clientAddr, verified, backendUp, store,
                   req, payload, blob, reply, calls, codecVars, conVars>>

\* the handler echoing the backend's error text to the caller
ReturnEcho(r) ==
    /\ st[r] = "serialized"
    /\ reply[r] # "none"
    /\ \/ /\ reply[r] = "ack"
          /\ log' = Append(log, LogInfo(r, MsgAdded,
                                <<"method", payload[r].Method,
                                  "uri", payload[r].URI>>))
          /\ responses' = [responses EXCEPT ![r] = Append(@, RespAdded)]
          /\ st' = [st EXCEPT ![r] = "enqueued"]
       \/ /\ reply[r] # "ack"
          /\ responses' = [responses EXCEPT ![r] =
                              Append(@, JSONResponse(500, "error", reply[r]))]
          /\ log' = Append(log, LogError(r, MsgPushFailed, reply[r]))
          /\ st' = [st EXCEPT ![r] = "enqueue_failed"]
    /\ UNCHANGED <<variant, flagAddr, clientAddr, mainPc, verified, backendUp,
                   store, req, payload, blob, reply, calls, codecVars,
                   conVars>>

\* the handler answering a backend error without logging it
ReturnUnlogged(r) ==
    /\ st[r] = "serialized"
    /\ reply[r] # "none"
    /\ \/ /\ reply[r] = "ack"
          /\ log' = Append(log, LogInfo(r, MsgAdded,
                                <<"method", payload[r].Method,
                                  "uri", payload[r].URI>>))
          /\ responses' = [responses EXCEPT ![r] = Append(@, RespAdded)]
          /\ st' = [st EXCEPT ![r] = "enqueued"]
       \/ /\ reply[r] # "ack"
          /\ responses' = [responses EXCEPT ![r] = Append(@, RespPushFailed)]
          /\ st' = [st EXCEPT ![r] = "enqueue_failed"]
          /\ UNCHANGED log
    /\ UNCHANGED <<variant, flagAddr, clientAddr, mainPc, verified, backendUp,
                   store, req, payload, blob, reply, calls, codecVars,
                   conVars>>

\* the handler sending a request whose backend call failed back to be
\* serialized and pushed again
ReturnRequeue(r) ==
    /\ st[r] = "serialized"
    /\ reply[r] # "none"
    /\ \/ /\ reply[r] = "ack"
          /\ log' = Append(log, LogInfo(r, MsgAdded,
                                <<"method", payload[r].Method,
                                  "uri", payload[r].URI>>))
          /\ responses' = [responses EXCEPT ![r] = Append(@, RespAdded)]
          /\ st' = [st EXCEPT ![r] = "enqueued"]
          /\ UNCHANGED reply
       \/ /\ reply[r] # "ack"
          /\ log' = Append(log, LogError(r, MsgPushFailed, reply[r]))
          /\ st' = [st EXCEPT ![r] = "captured"]
          /\ reply' = [reply EXCEPT ![r] = "none"]
          /\ UNCHANGED responses
    /\ UNCHANGED <<variant, flagAddr, clientAddr, mainPc, verified, backendUp,
                   store, req, payload, blob, calls, codecVars, conVars>>

\* the backend call returns to the handler: on an error it answers 500 and
\* logs the error, otherwise it logs the request and answers 200
Return(r) ==
    /\ st[r] = "serialized"
    /\ reply[r] # "none"
    /\ \/ /\ reply[r] = "ack"
          /\ log' = Append(log, LogInfo(r, MsgAdded,
                                <<"method", payload[r].Method,
                                  "uri", payload[r].URI>>))
          /\ responses' = [responses EXCEPT ![r] = Append(@, RespAdded)]
          /\ st' = [st EXCEPT ![r] = "enqueued"]
       \/ /\ reply[r] # "ack"
          /\ responses' = [responses EXCEPT ![r] = Append(@, RespPushFailed)]
          /\ log' = Append(log, LogError(r, MsgPushFailed, reply[r]))
          /\ st' = [st EXCEPT ![r] = "enqueue_failed"]
    /\ UNCHANGED <<variant, flagAddr, clientAddr, mainPc, verified, backendUp,
                   store, req, payload, blob, reply, calls, codecVars,
                   conVars>>

Next ==
    \/ NewServerRedis
    \/ NewServerKafka
    \/ Run
    \/ BackendFlip
    \/ \E r \in Req : Accept(r)
    \/ \E r \in Req : ParseRequest(r)
    \/ \E r \in Req : Marshal(r)
    \/ \E r \in Req : BackendExec(r)
    \/ \E r \in Req : Return(r)

Spec == Init /\ [][Next]_vars

\* Every handler runs in its own goroutine, and the body read and the
\* backend call of a request return: each step of each handler is taken
\* once it stays possible.
Fairness ==
    \A r \in Req :
        /\ WF_vars(ParseRequest(r))
        /\ WF_vars(Marshal(r))
        /\ WF_vars(BackendExec(r))
        /\ WF_vars(Return(r))

FairSpec == Init /\ [][Next]_vars /\ Fairness

\* As FairSpec, but request 1's body read and backend call are left free
\* never to return: only the other requests are dispatched and stepped.
FairnessButFirst ==
    \A r \in Req \ {1} :
        /\ WF_vars(Accept(r))
        /\ WF_vars(ParseRequest(r))
        /\ WF_vars(Marshal(r))
        /\ WF_vars(BackendExec(r))
        /\ WF_vars(Return(r))

BlockedSpec == Init /\ [][Next]_vars /\ FairnessButFirst

(***************************************************************************)
(* The codec on its own: one request is captured, serialized and decoded   *)
(* again by a consumer.                                                    *)
(***************************************************************************)
\* all sequences over S of length at most n
SeqUpTo(S, n) == UNION {[1..k -> S] : k \in 0..n}

\* bytes of the enumerated bodies: 'a', '"', the two bytes of U+00E9, and
\* 0xFF, which is no valid UTF-8
BodyBytes == {97, 34, 195, 169, 255}
\* the enumerated header lines
HeaderLines == {HdrXTag, HdrAccept} \X {ValA, ValB}

CodecRequests ==
    [Method : {GET, POST}, RequestURI : {UriFooBar, UriQuery},
     Lines : SeqUpTo(HeaderLines, MaxHdrLines),
     Body : SeqUpTo(BodyBytes, MaxBody)]

CodecInit ==
    /\ variant = "list"
    /\ flagAddr = RedisDefaultAddr
    /\ clientAddr = <<>>
    /\ stdout = <<>>
    /\ reads = [r \in Req |-> 0]
    /\ mainPc = "start"
    /\ verified = FALSE
    /\ backendUp = FALSE
    /\ store = <<>>
    /\ req = [r \in Req |-> None]
    /\ st = [r \in Req |-> "idle"]
    /\ payload = [r \in Req |-> None]
    /\ blob = [r \in Req |-> <<>>]
    /\ reply = [r \in Req |-> "none"]
    /\ calls = [r \in Req |-> 0]
    /\ responses = [r \in Req |-> <<>>]
    /\ log = <<>>
    /\ cPc = "input"
    /\ cIn \in CodecRequests
    /\ cEnv = None
    /\ cBlob = <<>>
    /\ cOut = None

\* parseRequest on a body read in full
CodecCapture ==
    /\ cPc = "input"
    /\ cEnv' = parseRequest(cIn)
    /\ cPc' = "captured"
    /\ UNCHANGED <<srvVars, conVars, cIn, cBlob, cOut>>

\* json.Marshal(data)
CodecSerialize ==
    /\ cPc = "captured"
    /\ cBlob' = jsonMarshal(cEnv)
    /\ cPc' = "serialized"
    /\ UNCHANGED <<srvVars, conVars, cIn, cEnv, cOut>>

\* the consumer's json.Unmarshal
CodecDeserialize ==
    /\ cPc = "serialized"
    /\ cOut' = jsonUnmarshal(cBlob)
    /\ cPc' = "decoded"
    /\ UNCHANGED <<srvVars, conVars, cIn, cEnv, cBlob>>

CodecNext == CodecCapture \/ CodecSerialize \/ CodecDeserialize

CodecSpec == CodecInit /\ [][CodecNext]_vars

(***************************************************************************)
(* The console-print variant: the same catch-all route, a handler that     *)
(* prints the request and answers 200, and no backend.                     *)
(***************************************************************************)
\* the confirmation text of the console variant
MsgPrinted == "Request received and printed to console"

\* the response of the console variant's handler
RespPrinted == JSONResponse(200, "message", MsgPrinted)

\* fmt.Printf of one line by the handler of request r
PrintLine(r, label, val) == [by |-> r, label |-> label, val |-> val]

\* the orders in which range may visit the keys of header map h
RangeOrders(h) ==
    {o \in [1..Cardinality(DOMAIN h) -> DOMAIN h] :
        \A i, j \in DOMAIN o : i # j => o[i] # o[j]}

ConsoleInit ==
    /\ variant = "console"
    /\ flagAddr = <<>>
    /\ clientAddr = <<>>
    /\ mainPc = "start"
    /\ verified = FALSE
    /\ backendUp = FALSE
    /\ store = <<>>
    /\ req = [r \in Req |-> None]
    /\ st = [r \in Req |-> "idle"]
    /\ payload = [r \in Req |-> None]
    /\ blob = [r \in Req |-> <<>>]
    /\ reply = [r \in Req |-> "none"]
    /\ calls = [r \in Req |-> 0]
    /\ responses = [r \in Req |-> <<>>]
    /\ log = <<>>
    /\ stdout = <<>>
    /\ reads = [r \in Req |-> 0]
    /\ cPc = "off"
    /\ cIn = None
    /\ cEnv = None
    /\ cBlob = <<>>
    /\ cOut = None

\* main of the console variant: the route is bound and r.Run(":8080")
\* starts the listener, or fails and main ends
ConsoleRun ==
    /\ variant = "console"
    /\ mainPc = "start"
    /\ mainPc' \in {"serving", "exited"}
    /\ UNCHANGED <<variant, flagAddr, clientAddr, verified, backendUp, store,
                   req, st, payload, blob, reply, calls, responses, log,
                   codecVars, conVars>>

\* the handler prints the method, the request target and the headers, the
\* headers in the order range visits the map
ConsolePrint(r) ==
    /\ variant = "console"
    /\ st[r] = "received"
    /\ \E o \in RangeOrders(RequestHeader(req[r].Lines)) :
          stdout' = stdout
              \o <<PrintLine(r, "Method", req[r].Method),
                   PrintLine(r, "URI", req[r].RequestURI),
                   PrintLine(r, "Headers", <<>>)>>
              \o [i \in DOMAIN o |->
                     PrintLine(r, o[i], RequestHeader(req[r].Lines)[o[i]])]
    /\ st' = [st EXCEPT ![r] = "printed"]
    /\ UNCHANGED <<variant, flagAddr, clientAddr, mainPc, verified, backendUp,
                   store, req, payload, blob, reply, calls, responses, log,
                   codecVars, reads>>

\* the body is read and printed for POST and PUT only; a failed read
\* prints nothing
ConsoleBody(r) ==
    /\ variant = "console"
    /\ st[r] = "printed"
    /\ IF req[r].Method \in {POST, PUT}
       THEN /\ reads' = [reads EXCEPT ![r] = @ + 1]
            /\ \/ stdout' = Append(stdout, PrintLine(r, "Body", req[r].Body))
               \/ \E e \in ReadErrors : UNCHANGED stdout
       ELSE UNCHANGED <<reads, stdout>>
    /\ st' = [st EXCEPT ![r] = "body_done"]
    /\ UNCHANGED <<variant, flagAddr, clientAddr, mainPc, verified, backendUp,
                   store, req, payload, blob, reply, calls, responses, log,
                   codecVars>>

\* the handler answers 200 with the fixed text
ConsoleRespond(r) ==
    /\ variant = "console"
    /\ st[r] = "body_done"
    /\ responses' = [responses EXCEPT ![r] = Append(@, RespPrinted)]
    /\ st' = [st EXCEPT ![r] = "answered"]
    /\ UNCHANGED <<variant, flagAddr, clientAddr, mainPc, verified, backendUp,
                   store, req, payload, blob, reply, calls, log, codecVars,
                   conVars>>

ConsoleNext ==
    \/ ConsoleRun
    \/ \E r \in Req : Accept(r)
    \/ \E r \in Req : ConsolePrint(r)
    \/ \E r \in Req : ConsoleBody(r)
    \/ \E r \in Req : ConsoleRespond(r)

ConsoleSpec == ConsoleInit /\ [][ConsoleNext]_vars

(***************************************************************************)
(* Properties.                                                             *)
(***************************************************************************)
\* the statuses of the responses written for request r
Statuses(r) == {responses[r][i].status : i \in 1..Len(responses[r])}

\* the document the backend should hold for request r: the serialization
\* of the envelope captured from r's own request
OwnBlob(r) == jsonMarshal(parseRequest(req[r]))

\* how often blob b occurs in the backend
CountInStore(b) == Cardinality({i \in 1..Len(store) : store[i] = b})

\* C1: at-most-one-enqueue.  For every request, in the list variant and in
\* the topic variant, the enqueue primitive is invoked at most once over the
\* whole handling, and not at all before serialization has succeeded: never
\* when the body read failed or json.Marshal failed.
C1_AtMostOneEnqueue ==
    \A r \in Req :
        /\ calls[r] <= 1
        /\ st[r] \in {"idle", "received", "captured", "capture_failed",
                      "serialize_failed"} => calls[r] = 0
        /\ st[r] \in {"serialized", "enqueued", "enqueue_failed"}
              => calls[r] = 1

\* C1's case: one request stopped before the enqueue, another one went
\* through its single enqueue call
C1_Witness ==
    \E r, q \in Req :
        /\ st[r] \in {"capture_failed", "serialize_failed"}
        /\ calls[r] = 0
        /\ st[q] \in {"enqueued", "enqueue_failed"}
        /\ calls[q] = 1

\* C2: status-code mapping.  A request whose capture failed, whose
\* serialization failed or whose enqueue failed is answered 500; a request
\* is answered 200 exactly when it was captured, serialized and its enqueue
\* acknowledged; no status other than 200 and 500 is ever written.
C2_StatusMapping ==
    \A r \in Req :
        /\ Statuses(r) \subseteq {200, 500}
        /\ st[r] \in Failed => Statuses(r) = {500}
        /\ st[r] = "enqueue_failed" => reply[r] \in BackendErrors
        /\ st[r] = "enqueued" => Statuses(r) = {200}
        /\ 200 \in Statuses(r)
              => /\ st[r] = "enqueued"
                 /\ payload[r] = parseRequest(req[r])
                 /\ blob[r] = jsonMarshal(payload[r])
                 /\ reply[r] = "ack"

\* C2's case: requests of different methods and bodies, one answered 200 and
\* one answered 500 after a backend failure
C2_Witness ==
    \E r, q \in Req :
        /\ st[r] = "enqueued" /\ Statuses(r) = {200}
        /\ st[q] = "enqueue_failed" /\ Statuses(q) = {500}
        /\ req[r].Method # req[q].Method

\* C3: concurrent independence.  In every interleaving the backend holds
\* exactly one blob per request whose enqueue it acknowledged, each the
\* serialization of that request's own envelope: as many blobs as
\* acknowledged requests, and every document as often as requests own it.
C3_ConcurrentIndependence ==
    LET acked == {r \in Req : reply[r] = "ack"}
    IN  /\ Len(store) = Cardinality(acked)
        /\ \A r \in acked :
              CountInStore(OwnBlob(r))
                  = Cardinality({q \in acked : OwnBlob(q) = OwnBlob(r)})
        /\ \A r \in Req : st[r] = "enqueued" => r \in acked

\* C3's case: every request of the run is inside its backend call at the
\* same time, the backend has acknowledged all of them and holds one blob
\* for each, the blobs of different requests
C3_Witness ==
    /\ \A r \in Req : st[r] = "serialized" /\ reply[r] = "ack"
    /\ Len(store) = NumReq
    /\ \E r, q \in Req : OwnBlob(r) # OwnBlob(q)

\* C4: a 200 comes after the acknowledgement.  In every state, every request
\* answered 200 has its enqueue acknowledged and its blob in the backend, and
\* there are no more 200 responses than acknowledged enqueues.
C4_OkOnlyAfterAck ==
    /\ \A r \in Req :
          200 \in Statuses(r)
              => /\ reply[r] = "ack"
                 /\ \E i \in 1..Len(store) : store[i] = OwnBlob(r)
    /\ Cardinality({r \in Req : 200 \in Statuses(r)})
          <= Cardinality({r \in Req : reply[r] = "ack"})
    /\ Cardinality({r \in Req : reply[r] = "ack"}) <= Len(store)

\* C4's case: one request answered 200, another one acknowledged by the
\* backend and not answered yet
C4_Witness ==
    \E r, q \in Req :
        /\ 200 \in Statuses(r)
        /\ reply[q] = "ack" /\ responses[q] = <<>>

\* C5: exactly one response.  No request ever has two responses, a request
\* has its response exactly when its handler has ended, and, the body read
\* and the backend call returning, every received request ends with exactly
\* one response, a 200 or a 500.
C5_ExactlyOneResponse ==
    /\ [](\A r \in Req :
            /\ Len(responses[r]) <= 1
            /\ (st[r] \in Terminal) = (Len(responses[r]) = 1))
    /\ \A r \in Req :
          (st[r] = "received")
              ~> (/\ st[r] \in Terminal
                  /\ Len(responses[r]) = 1
                  /\ responses[r][1].status \in {200, 500})

\* C5's case: every request of the run has ended, one with a 200 and one
\* with a 500, each with its single response
C5_Witness ==
    /\ \A r \in Req : st[r] \in Terminal /\ Len(responses[r]) = 1
    /\ \E r, q \in Req : Statuses(r) = {200} /\ Statuses(q) = {500}

\* C6: startup fail-fast.  In every variant no request is handled unless
\* the startup reachability check of the backend has succeeded.
C6_StartupFailFast ==
    \A r \in Req : st[r] # "idle" => verified

\* request r is inside its body read, or inside a backend call that has not
\* returned
Blocked(r) ==
    \/ st[r] = "received"
    \/ st[r] = "serialized" /\ reply[r] = "none"

\* the next step of request q towards success is possible: it is
\* dispatched, captured, serialized and its enqueue invoked, stored and
\* acknowledged by a reachable backend, and answered 200
SuccessStepEnabled(q) ==
    /\ (st[q] = "idle" /\ \A p \in Req : p < q => st[p] # "idle")
          => ENABLED Accept(q)
    /\ st[q] = "received"
          => ENABLED (ParseRequest(q) /\ st'[q] = "captured")
    /\ st[q] = "captured"
          => ENABLED (Marshal(q) /\ st'[q] = "serialized"
                                 /\ calls'[q] = 1)
    /\ (st[q] = "serialized" /\ reply[q] = "none" /\ backendUp)
          => ENABLED (BackendExec(q) /\ reply'[q] = "ack"
                                     /\ Len(store') = Len(store) + 1)
    /\ (st[q] = "serialized" /\ reply[q] = "ack")
          => ENABLED (Return(q) /\ st'[q] = "enqueued"
                                /\ responses'[q] = <<RespAdded>>)

\* the step ends request r in a failure
FailureOf(r) == st[r] \notin Failed /\ st'[r] \in Failed

\* C7: per-request errors are recovered locally.  The step that ends a
\* request in a capture, serialize or enqueue failure changes nothing but
\* that request's own outcome (and the log): the process stays serving, the
\* backend, its content and every other request are untouched; and once a
\* request has failed, every other request still takes each step towards
\* its 200 as without the failure.
C7_ErrorsRecoveredLocally ==
    /\ [](\A r \in Req :
            st[r] \in Failed
                => /\ mainPc = "serving"
                   /\ \A q \in Req \ {r} : SuccessStepEnabled(q))
    /\ [][\A r \in Req :
            FailureOf(r)
                => /\ mainPc' = "serving"
                   /\ verified' = verified
                   /\ backendUp' = backendUp
                   /\ store' = store
                   /\ \A q \in Req \ {r} :
                         /\ req'[q] = req[q]
                         /\ st'[q] = st[q]
                         /\ payload'[q] = payload[q]
                         /\ blob'[q] = blob[q]
                         /\ reply'[q] = reply[q]
                         /\ calls'[q] = calls[q]
                         /\ responses'[q] = responses[q]]_vars

\* C7's case: a request ended in an enqueue failure and logged it, and a
\* request that arrived later was afterwards enqueued and answered 200
C7_Witness ==
    \E r, q \in Req :
        /\ r < q
        /\ st[r] = "enqueue_failed"
        /\ st[q] = "enqueued"
        /\ responses[q] = <<RespAdded>>
        /\ \E i, j \in 1..Len(log) :
              /\ i < j
              /\ log[i].by = r /\ log[i].level = "ERROR"
              /\ log[j].by = q /\ log[j].level = "INFO"

\* C8: blocking is local to one request.  While a request is blocked in
\* its body read or in a backend call that has not returned, every other
\* request can take its next step; and with request 1 free never to return
\* from either, every other request is still dispatched and reaches its
\* terminal outcome.
C8_BlockingIsLocal ==
    /\ [](\A r \in Req :
            Blocked(r) => \A q \in Req \ {r} : SuccessStepEnabled(q))
    /\ \A q \in Req \ {1} :
          (mainPc = "serving" /\ st[1] # "idle") ~> (st[q] \in Terminal)

\* C8's case: request 1 is still inside its backend call while a later
\* request has been answered
C8_Witness ==
    /\ st[1] = "serialized"
    /\ reply[1] = "none"
    /\ \E q \in Req \ {1} : st[q] \in Terminal /\ Len(responses[q]) = 1

\* C9: round-trip law.  Decoding the serialization of an envelope gives the
\* envelope back, field by field: serialization alters nothing.
C9_RoundTrip ==
    cPc = "decoded" => cOut.ok /\ cOut.val = cEnv

\* the values of the header lines named name, in the order received
ValuesOf(lines, name) ==
    LET sel == SelectSeq(lines, LAMBDA l : l[1] = name)
    IN  [i \in 1..Len(sel) |-> sel[i][2]]

\* C10: header preservation.  The captured envelope has one entry per
\* header name received, holding all the values of that name in the order
\* received, and the method and the raw request target are copied
\* unchanged.
C10_HeaderPreservation ==
    cPc \in {"captured", "serialized", "decoded"}
        => /\ cEnv.Method = cIn.Method
           /\ cEnv.URI = cIn.RequestURI
           /\ DOMAIN cEnv.Headers
                 = {cIn.Lines[i][1] : i \in 1..Len(cIn.Lines)}
           /\ \A name \in DOMAIN cEnv.Headers :
                 cEnv.Headers[name] = ValuesOf(cIn.Lines, name)

\* C10's case: X-Tag: a then X-Tag: b, on a target with a query string, is
\* captured as the two values in that order
C10_Witness ==
    /\ cPc = "captured"
    /\ cIn.Lines = << <<HdrXTag, ValA>>, <<HdrXTag, ValB>> >>
    /\ cIn.RequestURI = UriQuery
    /\ cEnv.Headers[HdrXTag] = <<ValA, ValB>>
    /\ cEnv.URI = UriQuery

C12_ResponseIndependentOfDetail ==
    \A r \in Req :
        /\ \A i \in 1..Len(responses[r]) :
              responses[r][i].body.text
                  \in {MsgReadFailed, MsgPushFailed, MsgAdded}
        /\ \A q \in Req :
              (st[r] \in Terminal /\ st[q] = st[r])
                  => responses[r] = responses[q]
        /\ st[r] = "enqueue_failed"
              => \E i \in 1..Len(log) :
                    log[i] = LogError(r, MsgPushFailed, reply[r])

\* C12's case: two different requests failed at the backend with different
\* error texts and were answered alike
C12_Witness ==
    \E r, q \in Req :
        /\ st[r] = "enqueue_failed" /\ st[q] = "enqueue_failed"
        /\ reply[r] # reply[q]
        /\ req[r] # req[q]
        /\ responses[r] = responses[q]

\* the error-level log events of request r
ErrorEventsOf(r) ==
    {i \in 1..Len(log) : log[i].by = r /\ log[i].level = "ERROR"}

\* the attributes of a log event hold key with value val
HasAttr(attrs, key, val) ==
    \E k \in 1..(Len(attrs) \div 2) :
        attrs[2 * k - 1] = key /\ attrs[2 * k] = val

\* C13 as claimed: on a backend failure the request has been captured in
\* full, exactly one error-level event is logged for it, and the event
\* carries the backend's failure detail, the captured body and the headers.
C13_ErrorLogCarriesRequest ==
    \A r \in Req :
        st[r] = "enqueue_failed"
            => /\ payload[r] = parseRequest(req[r])
               /\ Cardinality(ErrorEventsOf(r)) = 1
               /\ \A i \in ErrorEventsOf(r) :
                     /\ HasAttr(log[i].attrs, "error", reply[r])
                     /\ HasAttr(log[i].attrs, "body", payload[r].Body)
                     /\ HasAttr(log[i].attrs, "headers", payload[r].Headers)

\* C13 amended: on a backend failure the request has been captured in full,
\* exactly one error-level event is logged for it, and the event carries
\* the message of the push failure and the backend's failure detail as its
\* only attribute.
C13_ErrorLogCarriesDetail ==
    \A r \in Req :
        st[r] = "enqueue_failed"
            => /\ payload[r] = parseRequest(req[r])
               /\ reply[r] \in BackendErrors
               /\ Cardinality(ErrorEventsOf(r)) = 1
               /\ \A i \in ErrorEventsOf(r) :
                     /\ log[i].msg = MsgPushFailed
                     /\ log[i].attrs = <<"error", reply[r]>>

\* C13's case: a request with headers and a body failed at the backend and
\* its error event is in the log
C13_Witness ==
    \E r \in Req :
        /\ st[r] = "enqueue_failed"
        /\ payload[r].Body # <<>>
        /\ DOMAIN payload[r].Headers # {}
        /\ ErrorEventsOf(r) # {}

\* the steps of a request's handler: RECEIVED, CAPTURED, SERIALIZED and
\* ENQUEUED with the three failure exits ("idle" is a request that has not
\* arrived)
Transitions ==
    {<<"idle", "received">>,
     <<"received", "captured">>, <<"received", "capture_failed">>,
     <<"captured", "serialized">>, <<"captured", "serialize_failed">>,
     <<"serialized", "enqueued">>, <<"serialized", "enqueue_failed">>}

\* C14: per-request state machine.  Every step that changes a request's
\* state follows one of the seven transitions, so no state is skipped or
\* entered twice; the enqueue is invoked only on the step from CAPTURED to
\* SERIALIZED and the backend's answer, once given, stays; and a request in
\* ENQUEUED or in a failure state never changes again, in its state, its
\* envelope, its blob, its enqueue calls or its responses.
C14_StateMachine ==
    [][\A r \in Req :
          /\ st'[r] # st[r] => <<st[r], st'[r]>> \in Transitions
          /\ calls'[r] # calls[r]
                => /\ calls'[r] = calls[r] + 1
                   /\ st[r] = "captured" /\ st'[r] = "serialized"
          /\ reply[r] # "none" => reply'[r] = reply[r]
          /\ st[r] \in Terminal
                => /\ st'[r] = st[r]
                   /\ req'[r] = req[r]
                   /\ payload'[r] = payload[r]
                   /\ blob'[r] = blob[r]
                   /\ reply'[r] = reply[r]
                   /\ calls'[r] = calls[r]
                   /\ responses'[r] = responses[r]]_vars

\* C14's case: one request went through every state to ENQUEUED, another
\* one left through a failure exit, and the backend holds the one blob
C14_Witness ==
    \E r, q \in Req :
        /\ st[r] = "enqueued"
        /\ st[q] \in {"serialize_failed", "capture_failed"}
        /\ Len(store) = 1
        /\ backendUp

\* C15: list-append variant.  The list holds one blob per acknowledged
\* push and nothing else; the step on which the backend acknowledges the
\* push of a request puts that request's blob in front of the list as it
\* was, so the list is in reverse order of push completion; and no other
\* step, in particular no failing one, changes the list.
C15_ListHeadOrder ==
    /\ [](variant = "list"
            => /\ Len(store) = Cardinality({r \in Req : reply[r] = "ack"})
               /\ \A i \in 1..Len(store) :
                     \E r \in Req : reply[r] = "ack" /\ store[i] = OwnBlob(r))
    /\ [][variant = "list"
            => /\ \A r \in Req :
                     (reply[r] = "none" /\ reply'[r] = "ack")
                         => store' = <<OwnBlob(r)>> \o store
               /\ (\A r \in Req : reply'[r] = "ack" => reply[r] = "ack")
                     => store' = store]_vars

\* C15's case: in the list variant two requests with different envelopes
\* were pushed and answered, the list holding both blobs
C15_Witness ==
    /\ variant = "list"
    /\ \E r, q \in Req :
          /\ st[r] = "enqueued" /\ st[q] = "enqueued"
          /\ OwnBlob(r) # OwnBlob(q)
          /\ store = <<OwnBlob(r), OwnBlob(q)>>

\* C16: topic-append variant.  The step on which the backend confirms the
\* produce of a request appends that request's blob as one record to the
\* topic, and a rejected produce appends nothing; the handler leaves the
\* produce call only once the backend has confirmed or rejected it; and the
\* topic holds one record per confirmed produce, so a request answered 500
\* for a backend failure has no record confirmed.
C16_TopicSyncAck ==
    /\ [](variant = "topic"
            => /\ Len(store) = Cardinality({r \in Req : reply[r] = "ack"})
               /\ \A r \in Req :
                     /\ st[r] \in {"enqueued", "enqueue_failed"}
                           => reply[r] # "none" /\ calls[r] = 1
                     /\ st[r] = "enqueue_failed"
                           => /\ reply[r] \in BackendErrors
                              /\ Statuses(r) = {500})
    /\ [][variant = "topic"
            => \A r \in Req :
                  /\ (reply[r] = "none" /\ reply'[r] = "ack")
                        => store' = Append(store, OwnBlob(r))
                  /\ (reply[r] = "none" /\ reply'[r] \in BackendErrors)
                        => store' = store
                  /\ (st[r] = "serialized" /\ st'[r] # "serialized")
                        => reply[r] # "none"]_vars

\* C16's case: in the topic variant one request was rejected by the backend
\* and answered 500, another one was confirmed, and the topic holds the
\* record of the confirmed one only
C16_Witness ==
    /\ variant = "topic"
    /\ \E r, q \in Req :
          /\ st[r] = "enqueue_failed" /\ Statuses(r) = {500}
          /\ st[q] = "enqueued"
          /\ store = <<OwnBlob(q)>>

\* request r has arrived and its handler has not ended
InFlight(r) == st[r] \in {"received", "captured", "serialized"}

\* the next step of in-flight request r is possible now; for a pending
\* backend call on a reachable backend, r's blob is the next one enqueued
CanGoNext(r) ==
    /\ st[r] = "received" => ENABLED ParseRequest(r)
    /\ st[r] = "captured" => ENABLED Marshal(r)
    /\ (st[r] = "serialized" /\ reply[r] = "none" /\ backendUp)
          => ENABLED (BackendExec(r) /\ reply'[r] = "ack"
                                     /\ store' = Enqueue(store, blob[r]))

\* C17: no cross-request ordering.  Whenever request a arrived before
\* request b and both are in flight, each of them can take its next step
\* whatever the state of the other: b's blob can be enqueued while a's is
\* not yet, and a's while b's is not yet.
C17_NoCrossRequestOrdering ==
    \A a, b \in Req :
        (a < b /\ InFlight(a) /\ InFlight(b))
            => CanGoNext(a) /\ CanGoNext(b)

\* C17's case: a arrived before b, both handlers are still inside their
\* backend calls, and the backend has taken b's blob before a's
C17_Witness ==
    \E a, b \in Req :
        /\ a < b
        /\ st[a] = "serialized" /\ st[b] = "serialized"
        /\ reply[a] = "ack" /\ reply[b] = "ack"
        /\ OwnBlob(a) # OwnBlob(b)
        /\ \/ variant = "topic" /\ store = <<OwnBlob(b), OwnBlob(a)>>
           \/ variant = "list" /\ store = <<OwnBlob(a), OwnBlob(b)>>

\* C18: handling is independent of verb and path.  In every variant every
\* answered request, whatever its method and path, has had its body read
\* once, its envelope built unless the read failed, and its enqueue
\* attempted unless the read or the serialization failed; and two requests
\* that ended at the same stage have the same status.
C18_VerbPathIndependence ==
    \A r \in Req :
        Len(responses[r]) > 0
            => /\ reads[r] = 1
               /\ st[r] = "capture_failed"
                     \/ payload[r] = parseRequest(req[r])
               /\ st[r] \in {"capture_failed", "serialize_failed"}
                     \/ calls[r] = 1
               /\ \A q \in Req : st[q] = st[r] => Statuses(q) = Statuses(r)

\* the broker an address names: "localhost:9092", "127.0.0.1:9092" and
\* "127.0.0.1" with the default port are the local broker
Endpoint(a) ==
    IF a \in {KafkaDefaultAddr,
               <<49, 50, 55, 46, 48, 46, 48, 46, 49, 58, 57, 48, 57, 50>>}
              \cup {KgoDefaultSeeds[i] : i \in 1..Len(KgoDefaultSeeds)}
    THEN KafkaDefaultAddr
    ELSE a

\* C19: the backend handle is established against the configured address.
\* Once NewServer has built the client, in the list variant the client has
\* the flag's host:port and in the topic variant it has the brokers of
\* every seed of the comma-separated flag, and no others; so every enqueue
\* call of a request goes to those.
C19_BackendAddress ==
    clientAddr # <<>>
        => IF variant = "list"
           THEN clientAddr = <<flagAddr>>
           ELSE {Endpoint(clientAddr[i]) : i \in 1..Len(clientAddr)}
                    = {Endpoint(kafkaAddr[i]) : i \in 1..Len(kafkaAddr)}

=============================================================================
